---- MODULE Spec2Model ----
(***************************************************************************)
(* JSON Pointer (pointer.rs) and JSON Patch (patch.rs) over a document     *)
(* tree.  A path is a Rust &str, modelled as a sequence of one-character   *)
(* strings; a Value is a tagged record; every patch operation is an        *)
(* operator from the document before the call to the document after it     *)
(* and the returned Result.                                                *)
(***************************************************************************)
EXTENDS Integers, Sequences, FiniteSets, TLC

VARIABLES doc, pc, last, calls, run

vars == <<doc, pc, last, calls, run>>

(***************************************************************************)
(* Bounds of the model.                                                    *)
(***************************************************************************)
\* number of calls the caller makes on one document
MaxCalls == 2
\* longest command list handed to apply_patch
MaxCmds == 3

(***************************************************************************)
(* value::Value, Option<Value>, Error, Result.                             *)
(***************************************************************************)
\* A Value is a record of a tag and one payload per container kind, so that
\* any two Values can be compared: n for a number, a for an Array's Vec,
\* m for an Object's Map (a function from the keys present to Values).
EmptyMap == [k \in {} |-> 0]
Val(t, n, a, m) == [t |-> t, n |-> n, a |-> a, m |-> m]
Null == Val("Null", 0, <<>>, EmptyMap)
Num(n) == Val("Num", n, <<>>, EmptyMap)
Arr(list) == Val("Array", 0, list, EmptyMap)
Obj(map) == Val("Object", 0, <<>>, map)
\* Option::None; Some(x) is x itself (no Value carries the tag "None")
NoneV == Val("None", 0, <<>>, EmptyMap)

NoErr == [e |-> "none", path |-> <<>>, a |-> NoneV, b |-> NoneV]
InvalidPath(path, carried) ==
    [e |-> "InvalidPath", path |-> path, a |-> carried, b |-> NoneV]
TestNotEqual(path, stored, supplied) ==
    [e |-> "TestNotEqual", path |-> path, a |-> stored, b |-> supplied]

\* Result<T>: Ok(value), Err(error), or the call panicked (unwinding)
Ok(x) == [k |-> "Ok", v |-> x, e |-> NoErr]
Err(err) == [k |-> "Err", v |-> NoneV, e |-> err]
Panic == [k |-> "Panic", v |-> NoneV, e |-> NoErr]
\* the document after a call together with what the call returned
Out(d, r) == [doc |-> d, res |-> r]

(***************************************************************************)
(* String helpers of the Rust standard library, on character sequences.    *)
(***************************************************************************)
\* str::split(ch): the pieces between the occurrences of ch
RECURSIVE split(_, _)
split(s, ch) ==
    IF \E i \in 1..Len(s) : s[i] = ch
    THEN LET i == CHOOSE i \in 1..Len(s) :
                      s[i] = ch /\ \A j \in 1..(i - 1) : s[j] # ch
         IN  <<SubSeq(s, 1, i - 1)>> \o split(SubSeq(s, i + 1, Len(s)), ch)
    ELSE <<s>>

\* str::rsplitn(2, ch): <<after the last ch, before the last ch>>, or <<s>>
rsplitn2(s, ch) ==
    IF \E i \in 1..Len(s) : s[i] = ch
    THEN LET i == CHOOSE i \in 1..Len(s) :
                      s[i] = ch /\ \A j \in (i + 1)..Len(s) : s[j] # ch
         IN  <<SubSeq(s, i + 1, Len(s)), SubSeq(s, 1, i - 1)>>
    ELSE <<s>>

\* str::replace(from, to): non-overlapping matches, left to right
RECURSIVE replace(_, _, _)
replace(s, from, to) ==
    IF Len(s) < Len(from) THEN s
    ELSE IF SubSeq(s, 1, Len(from)) = from
         THEN to \o replace(SubSeq(s, Len(from) + 1, Len(s)), from, to)
         ELSE <<Head(s)>> \o replace(Tail(s), from, to)

\* x.replace("~1", "/").replace("~0", "~")
unescape(x) == replace(replace(x, <<"~", "1">>, <<"/">>), <<"~", "0">>, <<"~">>)

Digits == <<"0", "1", "2", "3", "4", "5", "6", "7", "8", "9">>
IsDigit(c) == \E i \in 1..10 : Digits[i] = c
DigitVal(c) == (CHOOSE i \in 1..10 : Digits[i] = c) - 1

RECURSIVE DecVal(_)
DecVal(ds) ==
    IF ds = <<>> THEN 0
    ELSE 10 * DecVal(SubSeq(ds, 1, Len(ds) - 1)) + DigitVal(ds[Len(ds)])

\* str::parse::<usize>().ok(): an optional '+', then one or more digits;
\* -1 stands for None.  (Overflow needs 20 digits, beyond any path here.)
ParseUsize(s) ==
    LET ds == IF s # <<>> /\ Head(s) = "+" THEN Tail(s) ELSE s
    IN  IF ds # <<>> /\ \A i \in 1..Len(ds) : IsDigit(ds[i])
        THEN DecVal(ds) ELSE -1

\* an index parse that lets usize's own parser decide ('+' and leading zeros)
parse_index_lax(s) == ParseUsize(s)

\* parse_index: no '+' prefix, no leading zero except "0"; -1 stands for None
parse_index(s) ==
    IF s # <<>> /\ (Head(s) = "+" \/ (Head(s) = "0" /\ Len(s) # 1))
    THEN -1
    ELSE ParseUsize(s)

\* pointer.split('/').skip(1).map(unescape)
Tokens(ptr) ==
    LET parts == Tail(split(ptr, "/"))
    IN  [i \in 1..Len(parts) |-> unescape(parts[i])]

(***************************************************************************)
(* pointer.rs: the resolvers.                                              *)
(***************************************************************************)
\* the loop of pointer(): follow the tokens from target, None on any miss
RECURSIVE Walk(_, _)
Walk(target, tokens) ==
    IF tokens = <<>> THEN target
    ELSE LET token == Head(tokens)
         IN  CASE target.t = "Object" ->
                    IF token \in DOMAIN target.m
                    THEN Walk(target.m[token], Tail(tokens))
                    ELSE NoneV
               [] target.t = "Array" ->
                    LET x == parse_index(token)
                    IN  IF x >= 0 /\ x < Len(target.a)
                        THEN Walk(target.a[x + 1], Tail(tokens))
                        ELSE NoneV
               [] OTHER -> NoneV

pointer(self, ptr) ==
    IF ptr = <<>> THEN self
    ELSE IF Head(ptr) # "/" THEN NoneV
    ELSE Walk(self, Tokens(ptr))

\* A &mut Value into the document is the route to it from the root: one step
\* per token, an object key (idx = -1) or an array position (key = <<>>).
KeyStep(key) == [key |-> key, idx |-> -1]
IdxStep(x) == [key |-> <<>>, idx |-> x]
NoRoute == [found |-> FALSE, route |-> <<>>]
Route(r) == [found |-> TRUE, route |-> r]

\* the loop of pointer_mut()
RECURSIVE WalkMut(_, _, _)
WalkMut(target, tokens, sofar) ==
    IF tokens = <<>> THEN Route(sofar)
    ELSE LET token == Head(tokens)
         IN  CASE target.t = "Object" ->
                    IF token \in DOMAIN target.m
                    THEN WalkMut(target.m[token], Tail(tokens),
                                 Append(sofar, KeyStep(token)))
                    ELSE NoRoute
               [] target.t = "Array" ->
                    LET idx == parse_index(token)
                    IN  IF idx >= 0 /\ idx < Len(target.a)
                        THEN WalkMut(target.a[idx + 1], Tail(tokens),
                                     Append(sofar, IdxStep(idx)))
                        ELSE NoRoute
               [] OTHER -> NoRoute

pointer_mut(self, ptr) ==
    IF ptr = <<>> THEN Route(<<>>)
    ELSE IF Head(ptr) # "/" THEN NoRoute
    ELSE WalkMut(self, Tokens(ptr), <<>>)

\* reading and writing through a &mut Value
RECURSIVE Deref(_, _)
Deref(self, route) ==
    IF route = <<>> THEN self
    ELSE LET s == Head(route)
         IN  IF s.idx < 0 THEN Deref(self.m[s.key], Tail(route))
             ELSE Deref(self.a[s.idx + 1], Tail(route))

RECURSIVE Assign(_, _, _)
Assign(self, route, value) ==
    IF route = <<>> THEN value
    ELSE LET s == Head(route)
         IN  IF s.idx < 0
             THEN Obj([self.m EXCEPT ![s.key] = Assign(@, Tail(route), value)])
             ELSE Arr([self.a EXCEPT ![s.idx + 1] = Assign(@, Tail(route), value)])

\* the loop of pointer_owned(): the matched entry is taken out of its
\* container and the rest of the container is dropped; list.remove(x) is
\* called for every parsed index and panics when x >= list.len()
RECURSIVE WalkOwned(_, _)
WalkOwned(target, tokens) ==
    IF tokens = <<>> THEN Ok(target)
    ELSE LET token == Head(tokens)
         IN  CASE target.t = "Object" ->
                    IF token \in DOMAIN target.m
                    THEN WalkOwned(target.m[token], Tail(tokens))
                    ELSE Ok(NoneV)
               [] target.t = "Array" ->
                    LET x == parse_index(token)
                    IN  IF x < 0 THEN Ok(NoneV)
                        ELSE IF x >= Len(target.a) THEN Panic
                        ELSE WalkOwned(target.a[x + 1], Tail(tokens))
               [] OTHER -> Ok(NoneV)

\* Ok(x) is the Option returned (NoneV for None)
pointer_owned(self, ptr) ==
    IF ptr = <<>> THEN Ok(self)
    ELSE IF Head(ptr) # "/" THEN Ok(NoneV)
    ELSE WalkOwned(self, Tokens(ptr))

(***************************************************************************)
(* Vec and Map operations used by patch.rs.                                *)
(***************************************************************************)
\* an insert that puts the value one place too far to the right
list_insert_after(list, idx, value) ==
    SubSeq(list, 1, idx + 1) \o <<value>> \o SubSeq(list, idx + 2, Len(list))
\* Vec::insert(idx, value), for idx <= len
list_insert(list, idx, value) ==
    SubSeq(list, 1, idx) \o <<value>> \o SubSeq(list, idx + 1, Len(list))
\* the Vec after Vec::swap_remove(idx): the last element fills the hole
list_swap_remove(list, idx) ==
    [j \in 1..(Len(list) - 1) |->
        IF j = idx + 1 THEN list[Len(list)] ELSE list[j]]
\* the Vec after Vec::remove(idx), for idx < len
list_remove(list, idx) ==
    SubSeq(list, 1, idx) \o SubSeq(list, idx + 2, Len(list))
\* the Vec after Vec::pop(), for a non-empty Vec
list_pop(list) == SubSeq(list, 1, Len(list) - 1)
\* Map::get / what Map::insert and Map::remove return
map_get(map, key) == IF key \in DOMAIN map THEN map[key] ELSE NoneV
\* the Map after Map::insert(key, value)
map_insert(map, key, value) ==
    [k \in DOMAIN map \cup {key} |-> IF k = key THEN value ELSE map[k]]
\* the Map after Map::remove(key)
map_remove(map, key) == [k \in DOMAIN map \ {key} |-> map[k]]

(***************************************************************************)
(* patch.rs: the single operations.                                        *)
(***************************************************************************)
\* break_path: (unescaped final token, parent pointer); parts[1] is out of
\* bounds, a panic, when the path holds no '/'
break_path(path) ==
    LET parts == rsplitn2(path, "/")
    IN  IF Len(parts) < 2
        THEN [panic |-> TRUE, target |-> <<>>, parent |-> <<>>]
        ELSE [panic |-> FALSE, target |-> unescape(parts[1]),
              parent |-> parts[2]]

\* the guard of the insert arm of patch_add: Some(idx) if idx < list.len()
AddIndexOk(idx, len) == idx >= 0 /\ idx < len

\* an Array arm whose error for a bad index does not carry the value
AddToArray_dropping(self, route, list, target, path, value) ==
    IF target = <<"-">>
    THEN Out(Assign(self, route, Arr(Append(list, value))), Ok(NoneV))
    ELSE IF AddIndexOk(parse_index(target), Len(list))
         THEN Out(Assign(self, route,
                         Arr(list_insert(list, parse_index(target), value))),
                  Ok(NoneV))
         ELSE Out(self, Err(InvalidPath(path, NoneV)))

\* an Array arm that pushes the value before it reports a bad index
AddToArray_pushing(self, route, list, target, path, value) ==
    IF target = <<"-">> \/ AddIndexOk(parse_index(target), Len(list))
    THEN Out(Assign(self, route, Arr(Append(list, value))), Ok(NoneV))
    ELSE Out(Assign(self, route, Arr(Append(list, value))),
             Err(InvalidPath(path, value)))

\* the Array arm of patch_add
AddToArray(self, route, list, target, path, value) ==
    IF target = <<"-">>
    THEN Out(Assign(self, route, Arr(Append(list, value))), Ok(NoneV))
    ELSE IF AddIndexOk(parse_index(target), Len(list))
         THEN Out(Assign(self, route,
                         Arr(list_insert(list, parse_index(target), value))),
                  Ok(NoneV))
         ELSE Out(self, Err(InvalidPath(path, value)))

\* is this path the one patch_add and patch_remove take for the root
IsRootPath(path) == path = <<"/">>

patch_add(self, path, value) ==
    IF IsRootPath(path) THEN Out(value, Ok(self))
    ELSE LET bp == break_path(path)
             pm == pointer_mut(self, bp.parent)
             parent == Deref(self, pm.route)
         IN  IF bp.panic THEN Out(self, Panic)
             ELSE IF ~pm.found THEN Out(self, Err(InvalidPath(path, value)))
             ELSE CASE parent.t = "Object" ->
                         Out(Assign(self, pm.route,
                                    Obj(map_insert(parent.m, bp.target, value))),
                             Ok(map_get(parent.m, bp.target)))
                    [] parent.t = "Array" ->
                         AddToArray(self, pm.route, parent.a, bp.target,
                                    path, value)
                    [] OTHER -> Out(self, Err(InvalidPath(path, value)))

\* a replace that adds: it also creates the slot when none is there
patch_replace_adding(self, path, value) ==
    LET r == patch_add(self, path, value)
    IN  IF r.res.k # "Ok" THEN r
        ELSE IF r.res.v = NoneV THEN Out(r.doc, Ok(Null))
        ELSE r

patch_replace(self, path, value) ==
    LET pm == pointer_mut(self, path)
    IN  IF pm.found
        THEN Out(Assign(self, pm.route, value), Ok(Deref(self, pm.route)))
        ELSE Out(self, Err(InvalidPath(path, value)))

\* the Array arm of patch_remove
RemoveFromArray(self, route, list, target, path) ==
    IF target = <<"-">>
    THEN IF list = <<>> THEN Out(self, Err(InvalidPath(path, NoneV)))
         ELSE Out(Assign(self, route, Arr(list_pop(list))),
                  Ok(list[Len(list)]))
    ELSE LET x == parse_index(target)
         IN  IF x >= 0 /\ x < Len(list)
             THEN Out(Assign(self, route, Arr(list_remove(list, x))),
                      Ok(list[x + 1]))
             ELSE Out(self, Err(InvalidPath(path, NoneV)))

patch_remove(self, path) ==
    IF IsRootPath(path) THEN Out(Null, Ok(self))
    ELSE LET bp == break_path(path)
             pm == pointer_mut(self, bp.parent)
             parent == Deref(self, pm.route)
         IN  IF bp.panic THEN Out(self, Panic)
             ELSE IF ~pm.found THEN Out(self, Err(InvalidPath(path, NoneV)))
             ELSE CASE parent.t = "Object" ->
                         IF bp.target \in DOMAIN parent.m
                         THEN Out(Assign(self, pm.route,
                                         Obj(map_remove(parent.m, bp.target))),
                                  Ok(parent.m[bp.target]))
                         ELSE Out(self, Err(InvalidPath(path, NoneV)))
                    [] parent.t = "Array" ->
                         RemoveFromArray(self, pm.route, parent.a, bp.target,
                                         path)
                    [] OTHER -> Out(self, Err(InvalidPath(path, NoneV)))

\* the arm Err(Error::InvalidPath(p, Some(src))) of patch_move and patch_bump
CarriesValue(res) ==
    res.k = "Err" /\ res.e.e = "InvalidPath" /\ res.e.a # NoneV

patch_move(self, from, path) ==
    LET removed == patch_remove(self, from)
        added == patch_add(removed.doc, path, removed.res.v)
        back == patch_add(added.doc, from, added.res.e.a)
    IN  IF removed.res.k # "Ok" THEN removed
        ELSE IF CarriesValue(added.res)
             THEN IF back.res.k = "Panic" THEN back
                  ELSE Out(back.doc, Err(InvalidPath(added.res.e.path, NoneV)))
             ELSE added

\* a bump that returns the add's error without putting `from` back
patch_bump_uncompensated(self, from, path, value) ==
    LET replaced == patch_replace(self, from, value)
    IN  IF replaced.res.k # "Ok" THEN replaced
        ELSE patch_add(replaced.doc, path, replaced.res.v)

patch_bump(self, from, path, value) ==
    LET replaced == patch_replace(self, from, value)
        added == patch_add(replaced.doc, path, replaced.res.v)
        back == patch_replace(added.doc, from, added.res.e.a)
    IN  IF replaced.res.k # "Ok" THEN replaced
        ELSE IF CarriesValue(added.res)
             THEN IF back.res.k # "Ok" THEN Out(back.doc, Panic)
                  ELSE Out(back.doc,
                           Err(InvalidPath(added.res.e.path, back.res.v)))
             ELSE added

\* a copy that takes the value out of its source instead of cloning it
patch_copy_taking(self, from, path) == patch_move(self, from, path)

patch_copy(self, from, path) ==
    LET src == pointer(self, from)
    IN  IF src = NoneV THEN Out(self, Err(InvalidPath(path, NoneV)))
        ELSE patch_add(self, path, src)

\* a test that swaps the supplied value in to take the stored one out
patch_test_swapping(self, path, value) ==
    LET r == patch_replace(self, path, value)
    IN  IF r.res.k # "Ok" THEN r
        ELSE IF r.res.v = value THEN Out(r.doc, Ok(value))
        ELSE Out(r.doc, Err(TestNotEqual(path, r.res.v, value)))

\* a test that compares arrays without regard to the order of their elements
patch_test_unordered(self, path, value) ==
    LET source == pointer(self, path)
        same == IF value.t = "Array" /\ source.t = "Array"
                THEN /\ Len(value.a) = Len(source.a)
                     /\ {value.a[i] : i \in 1..Len(value.a)}
                           = {source.a[i] : i \in 1..Len(source.a)}
                ELSE value = source
    IN  IF source = NoneV THEN Out(self, Err(InvalidPath(path, value)))
        ELSE IF same THEN Out(self, Ok(value))
        ELSE Out(self, Err(TestNotEqual(path, source, value)))

patch_test(self, path, value) ==
    LET source == pointer(self, path)
    IN  IF source = NoneV THEN Out(self, Err(InvalidPath(path, value)))
        ELSE IF value = source THEN Out(self, Ok(value))
        ELSE Out(self, Err(TestNotEqual(path, source, value)))

(***************************************************************************)
(* patch.rs: Command, apply_patch_command, apply_patch.                    *)
(***************************************************************************)
Cmd(op, from, path, value) ==
    [op |-> op, from |-> from, path |-> path, value |-> value]
Test(path, value) == Cmd("Test", <<>>, path, value)
Add(path, value) == Cmd("Add", <<>>, path, value)
Replace(path, value) == Cmd("Replace", <<>>, path, value)
Remove(path) == Cmd("Remove", <<>>, path, NoneV)
Move(from, path) == Cmd("Move", from, path, NoneV)
Copy(from, path) == Cmd("Copy", from, path, NoneV)
Bump(from, path, value) == Cmd("Bump", from, path, value)

\* the arm Err(Error::TestNotEqual(_, src, _)) => Ok(Command::Test(path, src))
TestArm(cmd, r) ==
    CASE r.res.k = "Ok" -> Out(r.doc, Ok(Test(cmd.path, r.res.v)))
      [] r.res.k = "Err" /\ r.res.e.e = "TestNotEqual" ->
            Out(r.doc, Ok(Test(cmd.path, r.res.e.a)))
      [] OTHER -> r

\* Ok(None) => Remove(path), Ok(Some(v)) => Replace(path, v)
AddArm(cmd, r) ==
    IF r.res.k # "Ok" THEN r
    ELSE IF r.res.v = NoneV THEN Out(r.doc, Ok(Remove(cmd.path)))
    ELSE Out(r.doc, Ok(Replace(cmd.path, r.res.v)))

\* Ok(None) => Move(path, from), Ok(Some(v)) => _Bump(path, from, v)
MoveArm(cmd, r) ==
    IF r.res.k # "Ok" THEN r
    ELSE IF r.res.v = NoneV THEN Out(r.doc, Ok(Move(cmd.path, cmd.from)))
    ELSE Out(r.doc, Ok(Bump(cmd.path, cmd.from, r.res.v)))

apply_patch_command(self, cmd) ==
    CASE cmd.op = "Test" ->
            TestArm(cmd, patch_test(self, cmd.path, cmd.value))
      [] cmd.op = "Remove" ->
            LET r == patch_remove(self, cmd.path)
            IN  IF r.res.k = "Ok" THEN Out(r.doc, Ok(Add(cmd.path, r.res.v)))
                ELSE r
      [] cmd.op = "Replace" ->
            LET r == patch_replace(self, cmd.path, cmd.value)
            IN  IF r.res.k = "Ok"
                THEN Out(r.doc, Ok(Replace(cmd.path, r.res.v)))
                ELSE r
      [] cmd.op = "Add" ->
            AddArm(cmd, patch_add(self, cmd.path, cmd.value))
      [] cmd.op = "Copy" ->
            AddArm(cmd, patch_copy(self, cmd.from, cmd.path))
      [] cmd.op = "Move" ->
            MoveArm(cmd, patch_move(self, cmd.from, cmd.path))
      [] cmd.op = "Bump" ->
            MoveArm(cmd, patch_bump(self, cmd.from, cmd.path, cmd.value))

(***************************************************************************)
(* The inputs the callers draw from.                                       *)
(***************************************************************************)
\* "", "/", "a" (no '/'), "/a", "/b", "/a/b", "/a/0", "/a/1", "/a/2", "/a/-"
Paths ==
    { <<>>, <<"/">>, <<"a">>, <<"/", "a">>, <<"/", "b">>,
      <<"/", "a", "/", "b">>, <<"/", "a", "/", "0">>, <<"/", "a", "/", "1">>,
      <<"/", "a", "/", "2">>, <<"/", "a", "/", "-">> }

Vals == { Num(1), Num(2) }

\* {}, {"a":[]}, {"a":[1,2],"b":1}, {"a":{"b":1}}
InitDocs ==
    { Obj(EmptyMap),
      Obj([k \in {<<"a">>} |-> Arr(<<>>)]),
      Obj([k \in {<<"a">>, <<"b">>} |->
              IF k = <<"a">> THEN Arr(<<Num(1), Num(2)>>) ELSE Num(1)]),
      Obj([k \in {<<"a">>} |-> Obj([j \in {<<"b">>} |-> Num(1)])]) }

\* every Command over Paths and Vals
Cmds ==
    {Test(p, v) : p \in Paths, v \in Vals}
    \cup {Add(p, v) : p \in Paths, v \in Vals}
    \cup {Replace(p, v) : p \in Paths, v \in Vals}
    \cup {Remove(p) : p \in Paths}
    \cup {Move(f, p) : f \in Paths, p \in Paths}
    \cup {Copy(f, p) : f \in Paths, p \in Paths}
    \cup {Bump(f, p, v) : f \in Paths, p \in Paths, v \in Vals}

\* the commands of the lists handed to apply_patch
BatchCmds ==
    { Test(<<"/", "b">>, Num(1)), Test(<<"/", "b">>, Num(2)),
      Add(<<"/", "b">>, Num(2)), Add(<<"/", "a", "/", "-">>, Num(2)),
      Add(<<"/", "a", "/", "1">>, Num(2)), Add(<<"/">>, Num(1)),
      Replace(<<"/", "b">>, Num(2)), Replace(<<"/", "a", "/", "0">>, Num(2)),
      Remove(<<"/", "b">>), Remove(<<"/", "a", "/", "1">>),
      Remove(<<"/", "a", "/", "-">>),
      Move(<<"/", "b">>, <<"/", "a", "/", "-">>),
      Move(<<"/", "a", "/", "0">>, <<"/", "b">>),
      Move(<<"/", "a", "/", "b">>, <<"/", "b">>),
      Copy(<<"/", "a", "/", "0">>, <<"/", "b">>),
      Copy(<<"/", "b">>, <<"/", "a", "/", "-">>) }

\* the documents the resolvers and patch_test are called on:
\* {"a":[1,2],"b":1}, {"a":{"b":1}}, {"a/b":1,"~1":2,"":{"a":1}},
\* [[1,2],[2,1],{"0":1}], 1
ReadDocs ==
    { Obj((<<"a">> :> Arr(<<Num(1), Num(2)>>)) @@ (<<"b">> :> Num(1))),
      Obj(<<"a">> :> Obj(<<"b">> :> Num(1))),
      Obj((<<"a", "/", "b">> :> Num(1)) @@ (<<"~", "1">> :> Num(2))
          @@ (<<>> :> Obj(<<"a">> :> Num(1)))),
      Arr(<< Arr(<<Num(1), Num(2)>>), Arr(<<Num(2), Num(1)>>),
             Obj(<<"0">> :> Num(1)) >>),
      Num(1) }

\* "", "/", "a", "/a", "/b", "/a/b", "/a/0", "/a/1", "/a/2", "/a/-",
\* "/a/01", "/a/+1", "/a~1b", "/~01", "/~0", "//a", "/0", "/0/1", "/1/0",
\* "/2/0", "/3", "/b/0", "/00"
ReadPaths ==
    { <<>>, <<"/">>, <<"a">>, <<"/", "a">>, <<"/", "b">>,
      <<"/", "a", "/", "b">>, <<"/", "a", "/", "0">>, <<"/", "a", "/", "1">>,
      <<"/", "a", "/", "2">>, <<"/", "a", "/", "-">>,
      <<"/", "a", "/", "0", "1">>, <<"/", "a", "/", "+", "1">>,
      <<"/", "a", "~", "1", "b">>, <<"/", "~", "0", "1">>, <<"/", "~", "0">>,
      <<"/", "/", "a">>, <<"/", "0">>, <<"/", "0", "/", "1">>,
      <<"/", "1", "/", "0">>, <<"/", "2", "/", "0">>, <<"/", "3">>,
      <<"/", "b", "/", "0">>, <<"/", "0", "0">> }

\* 1, 2, [1,2], [2,1], {"b":1}
ReadVals ==
    { Num(1), Num(2), Arr(<<Num(1), Num(2)>>), Arr(<<Num(2), Num(1)>>),
      Obj(<<"b">> :> Num(1)) }

(***************************************************************************)
(* The state machine: a caller owning the document makes one call at a     *)
(* time; `last` records the call, the document before it and its Result.   *)
(***************************************************************************)
NoCall ==
    [op |-> "none", from |-> <<>>, path |-> <<>>, value |-> NoneV,
     cmds |-> <<>>, pre |-> NoneV, res |-> Ok(NoneV)]

Call(op, from, path, value, cmds, out) ==
    /\ doc' = out.doc
    /\ pc' = "returned"
    /\ last' = [op |-> op, from |-> from, path |-> path, value |-> value,
                cmds |-> cmds, pre |-> doc, res |-> out.res]
    /\ calls' = calls + 1
    /\ UNCHANGED run

\* apply_patch's locals while it runs: the commands still to apply (the rest
\* of `for cmd in cmds`), the rollbacks Vec and the error being returned
NoRun == [todo |-> <<>>, rollbacks |-> <<>>, err |-> NoErr]
Pending == [k |-> "Pending", v |-> NoneV, e |-> NoErr]

Init ==
    /\ doc \in InitDocs
    /\ pc = "idle"
    /\ last = NoCall
    /\ calls = 0
    /\ run = NoRun

PatchAdd ==
    /\ pc = "idle" /\ calls < MaxCalls
    /\ \E path \in Paths, value \in Vals :
          Call("patch_add", <<>>, path, value, <<>>,
               patch_add(doc, path, value))

PatchReplace ==
    /\ pc = "idle" /\ calls < MaxCalls
    /\ \E path \in Paths, value \in Vals :
          Call("patch_replace", <<>>, path, value, <<>>,
               patch_replace(doc, path, value))

PatchRemove ==
    /\ pc = "idle" /\ calls < MaxCalls
    /\ \E path \in Paths :
          Call("patch_remove", <<>>, path, NoneV, <<>>,
               patch_remove(doc, path))

PatchMove ==
    /\ pc = "idle" /\ calls < MaxCalls
    /\ \E from \in Paths, path \in Paths :
          Call("patch_move", from, path, NoneV, <<>>,
               patch_move(doc, from, path))

PatchCopy ==
    /\ pc = "idle" /\ calls < MaxCalls
    /\ \E from \in Paths, path \in Paths :
          Call("patch_copy", from, path, NoneV, <<>>,
               patch_copy(doc, from, path))

PatchBump ==
    /\ pc = "idle" /\ calls < MaxCalls
    /\ \E from \in Paths, path \in Paths, value \in Vals :
          Call("patch_bump", from, path, value, <<>>,
               patch_bump(doc, from, path, value))

PatchTest ==
    /\ pc = "idle" /\ calls < MaxCalls
    /\ \E path \in Paths, value \in Vals :
          Call("patch_test", <<>>, path, value, <<>>,
               patch_test(doc, path, value))

ApplyPatchCommand ==
    /\ pc = "idle" /\ calls < MaxCalls
    /\ \E cmd \in Cmds :
          Call("apply_patch_command", <<>>, <<>>, NoneV, <<cmd>>,
               apply_patch_command(doc, cmd))

\* apply_patch is entered: let mut rollbacks = Vec::with_capacity(..)
BatchStart ==
    /\ pc = "idle" /\ calls = 0
    /\ \E n \in 1..MaxCmds : \E cmds \in [1..n -> BatchCmds] :
          /\ last' = [op |-> "apply_patch", from |-> <<>>, path |-> <<>>,
                      value |-> NoneV, cmds |-> cmds, pre |-> doc,
                      res |-> Pending]
          /\ run' = [todo |-> cmds, rollbacks |-> <<>>, err |-> NoErr]
    /\ pc' = "applying"
    /\ calls' = calls + 1
    /\ UNCHANGED doc

\* one turn of `for cmd in cmds`: Ok pushes the inverse, Err starts the
\* rollback loop, a panic unwinds out of apply_patch
BatchApply ==
    /\ pc = "applying" /\ run.todo # <<>>
    /\ \E r \in {apply_patch_command(doc, Head(run.todo))} :
          /\ doc' = r.doc
          /\ CASE r.res.k = "Ok" ->
                    /\ run' = [run EXCEPT !.todo = Tail(@),
                                          !.rollbacks = Append(@, r.res.v)]
                    /\ UNCHANGED <<pc, last>>
               [] r.res.k = "Err" ->
                    /\ run' = [run EXCEPT !.err = r.res.e]
                    /\ pc' = "rollback"
                    /\ UNCHANGED last
               [] OTHER ->
                    /\ pc' = "returned"
                    /\ last' = [last EXCEPT !.res = Panic]
                    /\ UNCHANGED run
    /\ UNCHANGED calls

\* a rollback loop that takes the oldest inverse first (a queue, not a stack)
BatchRollback_fifo ==
    /\ pc = "rollback" /\ run.rollbacks # <<>>
    /\ \E r \in {apply_patch_command(doc, Head(run.rollbacks))} :
          /\ doc' = r.doc
          /\ run' = [run EXCEPT !.rollbacks = Tail(@)]
          /\ IF r.res.k = "Panic"
             THEN pc' = "returned" /\ last' = [last EXCEPT !.res = Panic]
             ELSE UNCHANGED <<pc, last>>
    /\ UNCHANGED calls

\* one turn of `while let Some(rb) = rollbacks.pop()`: the Result of
\* apply_patch_command(rb) is dropped
BatchRollback ==
    /\ pc = "rollback" /\ run.rollbacks # <<>>
    /\ \E r \in {apply_patch_command(doc,
                                     run.rollbacks[Len(run.rollbacks)])} :
          /\ doc' = r.doc
          /\ run' = [run EXCEPT
                        !.rollbacks = SubSeq(@, 1, Len(@) - 1)]
          /\ IF r.res.k = "Panic"
             THEN pc' = "returned" /\ last' = [last EXCEPT !.res = Panic]
             ELSE UNCHANGED <<pc, last>>
    /\ UNCHANGED calls

\* Ok(rollbacks) after the last command
BatchOk ==
    /\ pc = "applying" /\ run.todo = <<>>
    /\ pc' = "returned"
    /\ last' = [last EXCEPT !.res = Ok(run.rollbacks)]
    /\ UNCHANGED <<doc, calls, run>>

\* return Err(err) once the rollbacks are popped
BatchErr ==
    /\ pc = "rollback" /\ run.rollbacks = <<>>
    /\ pc' = "returned"
    /\ last' = [last EXCEPT !.res = Err(run.err)]
    /\ UNCHANGED <<doc, calls, run>>

\* the caller takes the Result and goes on; a panic ends the program
Return ==
    /\ pc = "returned"
    /\ last.res.k # "Panic"
    /\ pc' = "idle"
    /\ last' = NoCall
    /\ run' = NoRun
    /\ UNCHANGED <<doc, calls>>

Next ==
    \/ PatchAdd
    \/ PatchReplace
    \/ PatchRemove
    \/ PatchMove
    \/ PatchCopy
    \/ PatchBump
    \/ PatchTest
    \/ ApplyPatchCommand
    \/ Return

\* the single operations, called one after the other on one document
Spec == Init /\ [][Next]_vars

NextBatch ==
    \/ BatchStart
    \/ BatchApply
    \/ BatchRollback
    \/ BatchOk
    \/ BatchErr

\* one call of apply_patch on a document
SpecBatch == Init /\ [][NextBatch]_vars

\* the caller still owns a document (pointer_owned takes it by value)
Owned == doc.t # "None"

\* self.pointer(path): Ok(x) holds the Option returned
Pointer ==
    /\ pc = "idle" /\ calls < MaxCalls /\ Owned
    /\ \E path \in ReadPaths :
          Call("pointer", <<>>, path, NoneV, <<>>,
               Out(doc, Ok(pointer(doc, path))))

\* self.pointer_mut(path): Ok(x) holds the route of the &mut Value returned
PointerMut ==
    /\ pc = "idle" /\ calls < MaxCalls /\ Owned
    /\ \E path \in ReadPaths :
          Call("pointer_mut", <<>>, path, NoneV, <<>>,
               Out(doc, Ok(pointer_mut(doc, path))))

\* self.pointer_owned(path): the document is moved into the call
PointerOwned ==
    /\ pc = "idle" /\ calls < MaxCalls /\ Owned
    /\ \E path \in ReadPaths :
          Call("pointer_owned", <<>>, path, NoneV, <<>>,
               Out(NoneV, pointer_owned(doc, path)))

\* self.patch_test(path, value) on the documents of the resolvers
ReadTest ==
    /\ pc = "idle" /\ calls < MaxCalls /\ Owned
    /\ \E path \in ReadPaths, value \in ReadVals :
          Call("patch_test", <<>>, path, value, <<>>,
               patch_test(doc, path, value))

InitRead ==
    /\ doc \in ReadDocs
    /\ pc = "idle"
    /\ last = NoCall
    /\ calls = 0
    /\ run = NoRun

NextRead ==
    \/ Pointer
    \/ PointerMut
    \/ PointerOwned
    \/ ReadTest
    \/ Return

\* the resolvers and patch_test, called one after the other on one document
SpecRead == InitRead /\ [][NextRead]_vars

(***************************************************************************)
(* Properties.                                                             *)
(***************************************************************************)
Returned(op) == pc = "returned" /\ last.op = op
Resolves(d, ptr) == pointer(d, ptr).t # "None"

\* the commands cmds applied one after the other from document d, stopping
\* at the first that does not return Ok
RECURSIVE InOrder(_, _)
InOrder(d, cmds) ==
    IF cmds = <<>> THEN [doc |-> d, ok |-> TRUE]
    ELSE LET r == apply_patch_command(d, Head(cmds))
         IN  IF r.res.k = "Ok" THEN InOrder(r.doc, Tail(cmds))
             ELSE [doc |-> r.doc, ok |-> FALSE]

\* the inverses invs applied from the last to the first, every one
\* required to return Ok
RECURSIVE Undo(_, _)
Undo(d, invs) ==
    IF invs = <<>> THEN [doc |-> d, ok |-> TRUE]
    ELSE LET r == apply_patch_command(d, invs[Len(invs)])
         IN  IF r.res.k = "Ok"
             THEN Undo(r.doc, SubSeq(invs, 1, Len(invs) - 1))
             ELSE [doc |-> r.doc, ok |-> FALSE]

\* C1: batch atomicity: when apply_patch returns Err, the document equals
\* the document before the call.
C1_BatchAtomic ==
    (Returned("apply_patch") /\ last.res.k = "Err") => doc = last.pre

\* C2: a Test command of a batch that is reached (every earlier command
\* returned Ok) and whose path resolves to a value other than the supplied
\* one makes apply_patch return the TestNotEqual error with the document
\* as before the call.
C2_TestMismatchFailsBatch ==
    Returned("apply_patch") =>
        \A i \in 1..Len(last.cmds) :
            LET c == last.cmds[i]
                before == InOrder(last.pre, SubSeq(last.cmds, 1, i - 1))
            IN  (/\ c.op = "Test"
                 /\ before.ok
                 /\ Resolves(before.doc, c.path)
                 /\ pointer(before.doc, c.path) # c.value)
                => (/\ last.res.k = "Err"
                    /\ last.res.e.e = "TestNotEqual"
                    /\ doc = last.pre)

\* C3: no call of a patch operation panics: each returns Ok or Err.
C3_NeverPanics == pc = "returned" => last.res.k \in {"Ok", "Err"}

\* C4: the inverse command returned by a successful apply_patch_command,
\* applied next, returns Ok and restores the document.
C4_InverseRestores ==
    (Returned("apply_patch_command") /\ last.res.k = "Ok") =>
        LET back == apply_patch_command(doc, last.res.v)
        IN  back.res.k = "Ok" /\ back.doc = last.pre

\* C5: atomic move: when patch_move returns Err, the document equals the
\* document before the call.
C5_MoveAtomic ==
    (Returned("patch_move") /\ last.res.k = "Err") => doc = last.pre

\* C6: move round trip: after a successful move(from, path) to a path that
\* held no value, move(path, from) returns Ok and restores the document.
C6_MoveRoundTrip ==
    (/\ Returned("patch_move") /\ last.res.k = "Ok"
     /\ ~Resolves(last.pre, last.path)) =>
        LET back == patch_move(doc, last.path, last.from)
        IN  back.res.k = "Ok" /\ back.doc = last.pre

\* C7: add/remove round trip: after a successful add(p, v) at a path that
\* did not resolve, remove(p) returns Ok(v) and restores the document.
C7_AddRemoveRoundTrip ==
    (/\ Returned("patch_add") /\ last.res.k = "Ok"
     /\ ~Resolves(last.pre, last.path)) =>
        LET back == patch_remove(doc, last.path)
        IN  /\ back.res.k = "Ok"
            /\ back.res.v = last.value
            /\ back.doc = last.pre

\* the parent of an add and its final token, as the claims speak of them
ParentOf(d, path) == pointer(d, break_path(path).parent)
FinalToken(path) == break_path(path).target
IntoArray(d, path) ==
    /\ ~IsRootPath(path) /\ ~break_path(path).panic
    /\ ParentOf(d, path).t = "Array"

\* C8: add into an array parent of length len returns Ok exactly when the
\* final token is '-' or an index 0 <= i <= len; i = len appends, as '-'
\* does; everything else is an InvalidPath error.
C8_AddIntoArray ==
    (Returned("patch_add") /\ IntoArray(last.pre, last.path)) =>
        LET list == ParentOf(last.pre, last.path).a
            tok == FinalToken(last.path)
            i == parse_index(tok)
            dash == break_path(last.path).parent \o <<"/", "-">>
        IN  /\ last.res.k = "Ok" <=>
                   (tok = <<"-">> \/ (i >= 0 /\ i <= Len(list)))
            /\ i = Len(list) =>
                   doc = patch_add(last.pre, dash, last.value).doc
            /\ last.res.k # "Ok" =>
                   (last.res.k = "Err" /\ last.res.e.e = "InvalidPath")

\* the tokens of a pointer; none for the empty pointer
Steps(ptr) == IF ptr = <<>> THEN <<>> ELSE Tokens(ptr)
IsPrefix(s, t) == Len(s) <= Len(t) /\ SubSeq(t, 1, Len(s)) = s

\* the add at `path` writes on the route of `from`: it replaces the root,
\* or `from` is the parent of `path` or above it, or `path` is `from`,
\* above it, or an array position at or before the one the route of `from`
\* uses in that array
Touches(d, from, path) ==
    \/ IsRootPath(path)
    \/ LET P == Steps(break_path(path).parent)
           F == Steps(from)
           t == FinalToken(path)
       IN  \/ IsPrefix(F, P)
           \/ /\ IsPrefix(P, F) /\ Len(F) > Len(P)
              /\ IF ParentOf(d, path).t = "Array"
                 THEN t # <<"-">>
                      /\ parse_index(F[Len(P) + 1]) >= parse_index(t)
                 ELSE F[Len(P) + 1] = t

\* `path` names a slot that add fills and the resolver can read back
Readable(d, path) ==
    /\ ~IsRootPath(path)
    /\ ~(ParentOf(d, path).t = "Array" /\ FinalToken(path) = <<"-">>)

\* C9 as stated: after any successful copy(from, path), `from` resolves to
\* the value it resolved to before, `path` resolves to that value, and a
\* later replace at `path` does not change the value at `from`.
C9_CopySourceUntouched ==
    (Returned("patch_copy") /\ last.res.k = "Ok") =>
        LET src == pointer(last.pre, last.from)
        IN  /\ pointer(doc, last.from) = src
            /\ pointer(doc, last.path) = src
            /\ \A v \in Vals :
                  pointer(patch_replace(doc, last.path, v).doc, last.from)
                     = pointer(doc, last.from)

\* C9 (amended): after a successful copy(from, path) whose add does not
\* write on the route of `from`, `from` resolves to the value it resolved to
\* before and a later replace at `path` does not change it; and unless
\* `path` is the root path or appends with '-' to an array, `path` resolves
\* to the copied value.
C9_CopySourceUntouchedApart ==
    (Returned("patch_copy") /\ last.res.k = "Ok") =>
        LET src == pointer(last.pre, last.from)
        IN  /\ ~Touches(last.pre, last.from, last.path) =>
                  /\ pointer(doc, last.from) = src
                  /\ \A v \in Vals :
                        pointer(patch_replace(doc, last.path, v).doc,
                                last.from) = src
            /\ Readable(last.pre, last.path) =>
                  pointer(doc, last.path) = src

\* C9's case: a copy returned Ok to a readable slot off the route of `from`
C9_Witness ==
    /\ Returned("patch_copy") /\ last.res.k = "Ok"
    /\ ~Touches(last.pre, last.from, last.path)
    /\ Readable(last.pre, last.path)
    /\ Resolves(doc, last.from)

\* the inverse table of apply_patch_command, by shape
InverseFor(c, inv) ==
    CASE c.op = "Test" -> inv.op = "Test" /\ inv.path = c.path
      [] c.op = "Replace" -> inv.op = "Replace" /\ inv.path = c.path
      [] c.op = "Remove" -> inv.op = "Add" /\ inv.path = c.path
      [] c.op \in {"Add", "Copy"} ->
            inv.op \in {"Remove", "Replace"} /\ inv.path = c.path
      [] OTHER ->
            /\ inv.op \in {"Move", "Bump"}
            /\ inv.from = c.path /\ inv.path = c.from

\* C10: when apply_patch returns Ok(invs), invs holds one inverse per
\* command in the same order, and applying invs from last to first returns
\* Ok at every step and restores the document before the batch.
C10_UndoList ==
    (Returned("apply_patch") /\ last.res.k = "Ok") =>
        LET invs == last.res.v
            back == Undo(doc, invs)
        IN  /\ Len(invs) = Len(last.cmds)
            /\ \A i \in 1..Len(invs) : InverseFor(last.cmds[i], invs[i])
            /\ back.ok /\ back.doc = last.pre

\* C11: root replace equals root add: replace("/", v) returns Ok(old root)
\* and leaves the document equal to v, the Result value and the document of
\* add("/", v).
C11_RootReplace ==
    (Returned("patch_replace") /\ IsRootPath(last.path)) =>
        LET added == patch_add(last.pre, last.path, last.value)
        IN  /\ last.res.k = "Ok"
            /\ last.res.v = last.pre
            /\ doc = last.value
            /\ doc = added.doc /\ last.res.v = added.res.v

\* C12: read-after-write for add: after a successful add(p, v) whose final
\* token is not '-' (the root path included), p resolves to v and
\* test(p, v) returns Ok; after '-' on an array, v is the element at index
\* len - 1 of the grown array.
C12_ReadAfterAdd ==
    (Returned("patch_add") /\ last.res.k = "Ok") =>
        IF IsRootPath(last.path) \/ FinalToken(last.path) # <<"-">>
        THEN /\ pointer(doc, last.path) = last.value
             /\ patch_test(doc, last.path, last.value).res = Ok(last.value)
        ELSE IntoArray(last.pre, last.path) =>
                LET list == ParentOf(doc, last.path).a
                IN  /\ Len(list) = Len(ParentOf(last.pre, last.path).a) + 1
                    /\ list[Len(list)] = last.value

\* C13: test is pure: whatever patch_test returns (Ok, TestNotEqual or
\* InvalidPath), the document equals the document before the call.
C13_TestPure ==
    Returned("patch_test") =>
        /\ doc = last.pre
        /\ last.res.k \in {"Ok", "Err"}

\* C13's case: a test found a stored array that differs from the supplied one
C13_Witness ==
    /\ Returned("patch_test")
    /\ last.res.k = "Err" /\ last.res.e.e = "TestNotEqual"
    /\ last.res.e.a.t = "Array"
    /\ doc = last.pre

\* C14: test outcomes: patch_test(path, v) returns Ok(v) exactly when path
\* resolves to a value equal to v, TestNotEqual(path, stored, v) exactly
\* when it resolves to another value, and InvalidPath(path, Some(v)) exactly
\* when it does not resolve.
C14_TestOutcomes ==
    Returned("patch_test") =>
        LET stored == pointer(last.pre, last.path)
            found == stored.t # "None"
        IN  /\ last.res = Ok(last.value) <=> (found /\ stored = last.value)
            /\ last.res = Err(TestNotEqual(last.path, stored, last.value))
                   <=> (found /\ stored # last.value)
            /\ last.res = Err(InvalidPath(last.path, last.value)) <=> ~found

\* C14's case: the supplied array holds the stored elements in another order
C14_Witness ==
    /\ Returned("patch_test")
    /\ last.value = Arr(<<Num(2), Num(1)>>)
    /\ pointer(last.pre, last.path) = Arr(<<Num(1), Num(2)>>)
    /\ last.res.k = "Err" /\ last.res.e.e = "TestNotEqual"

\* C15: no partial mutation on single-operation failure: when patch_add,
\* patch_replace, patch_remove or patch_copy returns Err, the document equals
\* the document before the call.
C15_NoPartialMutation ==
    (/\ pc = "returned"
     /\ last.op \in {"patch_add", "patch_replace", "patch_remove",
                     "patch_copy"}
     /\ last.res.k = "Err") => doc = last.pre

\* C15's case: an add into an array was refused for its index
C15_Witness ==
    /\ Returned("patch_add") /\ last.res.k = "Err"
    /\ IntoArray(last.pre, last.path)
    /\ Len(ParentOf(last.pre, last.path).a) > 0
    /\ doc = last.pre

\* the document d with the node at pointer ptr (which resolves) put to value
PutAt(d, ptr, value) == Assign(d, pointer_mut(d, ptr).route, value)
\* the path splits into a final token and a parent pointer that resolves
HasParent(d, path) ==
    /\ ~IsRootPath(path) /\ ~break_path(path).panic
    /\ Resolves(d, break_path(path).parent)

\* C16: remove semantics, for a path that is not the root path and whose
\* parent resolves.  Object parent: a present key is deleted and its value
\* returned, an absent key is an error.  Array parent: '-' removes and
\* returns the last element (error if empty); an index i < len removes and
\* returns element i, the later elements moving left by one; any other
\* token or index is an error.  Nothing else in the document changes, and an
\* error changes nothing.
C16_RemoveSemantics ==
    (Returned("patch_remove") /\ HasParent(last.pre, last.path)) =>
        LET pp == break_path(last.path).parent
            P == ParentOf(last.pre, last.path)
            tok == FinalToken(last.path)
            n == Len(P.a)
            i == IF tok = <<"-">> THEN n - 1 ELSE parse_index(tok)
            failed == last.res.k = "Err" /\ doc = last.pre
        IN  CASE P.t = "Object" ->
                    IF tok \in DOMAIN P.m
                    THEN /\ last.res = Ok(P.m[tok])
                         /\ doc = PutAt(last.pre, pp,
                                Obj([k \in DOMAIN P.m \ {tok} |-> P.m[k]]))
                    ELSE failed
              [] P.t = "Array" ->
                    IF i >= 0 /\ i < n
                    THEN /\ last.res = Ok(P.a[i + 1])
                         /\ doc = PutAt(last.pre, pp,
                                Arr([j \in 1..(n - 1) |->
                                        IF j <= i THEN P.a[j]
                                        ELSE P.a[j + 1]]))
                    ELSE failed
              [] OTHER -> failed

\* C16's case: an element with at least two elements behind it was removed
C16_Witness ==
    /\ Returned("patch_remove") /\ last.res.k = "Ok"
    /\ IntoArray(last.pre, last.path)
    /\ FinalToken(last.path) = <<"0">>
    /\ Len(ParentOf(last.pre, last.path).a) = 3
    /\ Len(ParentOf(doc, last.path).a) = 2

\* a pointer the resolver can follow: "" or one that starts with '/'
WellFormed(ptr) == ptr = <<>> \/ Head(ptr) = "/"

\* what replace(path, v) must leave alone, seen through the pointers q of
\* the model: a node above path keeps its kind, key set and length; a node
\* neither above, at nor below path keeps its value
ReplaceFrame(before, after, path) ==
    \A q \in {r \in Paths \cup ReadPaths : WellFormed(r)} :
        IF IsPrefix(Steps(path), Steps(q)) THEN TRUE
        ELSE IF IsPrefix(Steps(q), Steps(path))
        THEN /\ pointer(after, q).t = pointer(before, q).t
             /\ DOMAIN pointer(after, q).m = DOMAIN pointer(before, q).m
             /\ Len(pointer(after, q).a) = Len(pointer(before, q).a)
        ELSE pointer(after, q) = pointer(before, q)

\* C17: replace semantics: patch_replace(path, v) returns Ok exactly when
\* path resolves; then it returns the old value, path resolves to v and
\* nothing else changes; otherwise it returns InvalidPath and changes
\* nothing.
C17_ReplaceSemantics ==
    Returned("patch_replace") =>
        LET old == pointer(last.pre, last.path)
        IN  /\ last.res.k = "Ok" <=> Resolves(last.pre, last.path)
            /\ last.res.k = "Ok" =>
                  /\ last.res.v = old
                  /\ pointer(doc, last.path) = last.value
                  /\ ReplaceFrame(last.pre, doc, last.path)
            /\ last.res.k # "Ok" =>
                  /\ last.res = Err(InvalidPath(last.path, last.value))
                  /\ doc = last.pre

\* C17's case: an element of an array was replaced by another value
C17_Witness ==
    /\ Returned("patch_replace") /\ last.res.k = "Ok"
    /\ IntoArray(last.pre, last.path)
    /\ last.res.v # last.value
    /\ pointer(doc, last.path) = last.value

\* C18: array insertion: a successful add at index i of an array a of
\* length len ('-' standing for len) gives an array of length len + 1 with
\* the new value at i, a[0..i-1] before it and a[j] at j + 1 for j >= i, and
\* returns Ok(None).
C18_ArrayInsertion ==
    (/\ Returned("patch_add") /\ last.res.k = "Ok"
     /\ IntoArray(last.pre, last.path)) =>
        LET a == ParentOf(last.pre, last.path).a
            b == ParentOf(doc, last.path).a
            tok == FinalToken(last.path)
            i == IF tok = <<"-">> THEN Len(a) ELSE parse_index(tok)
        IN  /\ last.res = Ok(NoneV)
            /\ Len(b) = Len(a) + 1
            /\ b[i + 1] = last.value
            /\ \A j \in 1..i : b[j] = a[j]
            /\ \A j \in (i + 1)..Len(a) : b[j + 1] = a[j]

\* C18's case: a value went in between two elements of an array
C18_Witness ==
    /\ Returned("patch_add") /\ last.res.k = "Ok"
    /\ IntoArray(last.pre, last.path)
    /\ FinalToken(last.path) = <<"1">>
    /\ Len(ParentOf(last.pre, last.path).a) >= 2
    /\ ParentOf(doc, last.path).a[2] = last.value

\* a reference token read in one pass, left to right: "~1" is '/', "~0" is
\* '~', every other character is itself
RECURSIVE Unescaped(_)
Unescaped(t) ==
    IF t = <<>> THEN <<>>
    ELSE IF Len(t) >= 2 /\ t[1] = "~" /\ t[2] = "1"
    THEN <<"/">> \o Unescaped(SubSeq(t, 3, Len(t)))
    ELSE IF Len(t) >= 2 /\ t[1] = "~" /\ t[2] = "0"
    THEN <<"~">> \o Unescaped(SubSeq(t, 3, Len(t)))
    ELSE <<Head(t)>> \o Unescaped(Tail(t))

\* the decimal numeral of n: no sign, no leading zero except for "0" itself
RECURSIVE Numeral(_)
Numeral(n) ==
    IF n < 10 THEN <<Digits[n + 1]>>
    ELSE Numeral(n \div 10) \o <<Digits[(n % 10) + 1]>>

\* one step of the resolver as the specification words it: a key of an
\* Object, the numeral of a position of an Array, absence otherwise
Child(node, token) ==
    CASE node.t = "Object" ->
            IF token \in DOMAIN node.m THEN node.m[token] ELSE NoneV
      [] node.t = "Array" ->
            IF \E x \in 0..(Len(node.a) - 1) : Numeral(x) = token
            THEN node.a[(CHOOSE x \in 0..(Len(node.a) - 1) :
                            Numeral(x) = token) + 1]
            ELSE NoneV
      [] OTHER -> NoneV

RECURSIVE Follow(_, _)
Follow(node, tokens) ==
    IF tokens = <<>> \/ node.t = "None" THEN node
    ELSE Follow(Child(node, Unescaped(Head(tokens))), Tail(tokens))

\* the node a pointer addresses, as the specification words it
Addressed(d, ptr) ==
    IF ptr = <<>> THEN d
    ELSE IF Head(ptr) # "/" THEN NoneV
    ELSE Follow(d, Tail(split(ptr, "/")))

\* C19: resolver semantics: pointer returns the node the pointer addresses
\* ("" the whole document; absence for a pointer not starting with '/', for
\* a missing key, for a token that is not the numeral of a position, and
\* below a scalar); pointer_mut finds a node exactly when pointer does, and
\* then the same node, one step per token; neither changes the document.
C19_ResolverSemantics ==
    /\ Returned("pointer") =>
          /\ doc = last.pre
          /\ last.res = Ok(Addressed(last.pre, last.path))
    /\ Returned("pointer_mut") =>
          LET pm == last.res.v
          IN  /\ doc = last.pre
              /\ pm.found <=> Resolves(last.pre, last.path)
              /\ pm.found =>
                    /\ Len(pm.route) = Len(Steps(last.path))
                    /\ Deref(last.pre, pm.route)
                          = Addressed(last.pre, last.path)

\* C19's case: pointer read the token "~01" as the key "~1"
C19_Witness ==
    /\ Returned("pointer")
    /\ last.path = <<"/", "~", "0", "1">>
    /\ last.res = Ok(Num(2))
    /\ doc = last.pre

\* C20: owned resolution agrees with read-only resolution: pointer_owned
\* returns (never panics) the value pointer returns on the same document,
\* None exactly when pointer returns None.
C20_OwnedAgrees ==
    Returned("pointer_owned") =>
        /\ last.res.k = "Ok"
        /\ last.res.v = pointer(last.pre, last.path)

\* C21: a failed add hands the value back: when patch_add(path, v) returns
\* Err, the error is InvalidPath(path, Some(v)) with the value v supplied;
\* so it is for the add inside patch_move, whose value is the one removed
\* at `from`.
C21_FailedAddHandsBack ==
    /\ (Returned("patch_add") /\ last.res.k = "Err") =>
          last.res = Err(InvalidPath(last.path, last.value))
    /\ Returned("patch_move") =>
          LET removed == patch_remove(last.pre, last.from)
              added == patch_add(removed.doc, last.path, removed.res.v)
          IN  (removed.res.k = "Ok" /\ added.res.k = "Err") =>
                 added.res = Err(InvalidPath(last.path, removed.res.v))

\* C21's case: an add at an index the array does not have was refused and
\* the error carries the value
C21_Witness ==
    /\ Returned("patch_add") /\ last.res.k = "Err"
    /\ IntoArray(last.pre, last.path)
    /\ parse_index(FinalToken(last.path)) > Len(ParentOf(last.pre, last.path).a)
    /\ last.res.e.a = last.value

\* C23: atomic bump: when the replace at `from` succeeds and the add at
\* `path` returns Err, the compensating replace succeeds (no panic of its
\* unwrap), the document equals the document before the call and the
\* InvalidPath returned carries the value supplied; when the first replace
\* fails, the document is unchanged.
C23_BumpAtomic ==
    Returned("patch_bump") =>
        LET replaced == patch_replace(last.pre, last.from, last.value)
            added == patch_add(replaced.doc, last.path, replaced.res.v)
        IN  /\ replaced.res.k = "Err" =>
                  (last.res.k = "Err" /\ doc = last.pre)
            /\ (replaced.res.k = "Ok" /\ added.res.k = "Err") =>
                  /\ last.res = Err(InvalidPath(last.path, last.value))
                  /\ doc = last.pre

\* C23's case: the replace went through, the add was refused, and the old
\* value (another one than the supplied) is back at `from`
C23_Witness ==
    /\ Returned("patch_bump") /\ last.res.k = "Err"
    /\ Resolves(last.pre, last.from)
    /\ pointer(last.pre, last.from) # last.value
    /\ last.res.e.a = last.value
    /\ doc = last.pre

\* the single-operation applier a command stands for
ApplySingle(d, cmd) ==
    CASE cmd.op = "Test" -> patch_test(d, cmd.path, cmd.value)
      [] cmd.op = "Add" -> patch_add(d, cmd.path, cmd.value)
      [] cmd.op = "Replace" -> patch_replace(d, cmd.path, cmd.value)
      [] cmd.op = "Remove" -> patch_remove(d, cmd.path)
      [] cmd.op = "Move" -> patch_move(d, cmd.from, cmd.path)
      [] cmd.op = "Copy" -> patch_copy(d, cmd.from, cmd.path)
      [] OTHER -> patch_bump(d, cmd.from, cmd.path, cmd.value)

\* the appliers of cmds called one after the other from document d, stopping
\* at the first that does not return Ok
RECURSIVE Sequential(_, _)
Sequential(d, cmds) ==
    IF cmds = <<>> THEN [doc |-> d, ok |-> TRUE]
    ELSE LET r == ApplySingle(d, Head(cmds))
         IN  IF r.res.k = "Ok" THEN Sequential(r.doc, Tail(cmds))
             ELSE [doc |-> r.doc, ok |-> FALSE]

\* C24: a successful batch equals sequential application: when apply_patch
\* returns Ok, the single-operation appliers of its commands, called in list
\* order on the document before the batch, all return Ok and end with the
\* document the batch ended with.
C24_BatchIsSequential ==
    (Returned("apply_patch") /\ last.res.k = "Ok") =>
        LET seq == Sequential(last.pre, last.cmds)
        IN  seq.ok /\ seq.doc = doc

\* the number of commands of the batch applied with success so far
Applied == Len(last.cmds) - Len(run.todo)

\* C22: rollback protocol ordering, step by step.  While apply_patch
\* applies, every step applies the next command of the list to the document,
\* the inverses recorded so far being those of the commands before it; Ok
\* records its inverse on top, Err keeps the stack and the error.  Once a
\* command has failed, no step consumes a later command or changes the
\* error: every step pops the most recent inverse and applies it, and only
\* when the stack is empty apply_patch returns, with the error of the
\* command that failed.
C22_RollbackOrdering ==
    [][/\ (pc = "applying" /\ run.todo # <<>>) =>
            LET r == apply_patch_command(doc, last.cmds[Applied + 1])
            IN  /\ Len(run.rollbacks) = Applied
                /\ doc' = r.doc
                /\ r.res.k = "Ok" =>
                      /\ pc' = "applying"
                      /\ run'.todo = SubSeq(last.cmds, Applied + 2,
                                            Len(last.cmds))
                      /\ run'.rollbacks = Append(run.rollbacks, r.res.v)
                /\ r.res.k = "Err" =>
                      /\ pc' = "rollback"
                      /\ run'.err = r.res.e
                      /\ run'.rollbacks = run.rollbacks
                      /\ run'.todo = run.todo
       /\ pc = "rollback" =>
            /\ run'.todo = run.todo
            /\ run'.err = run.err
            /\ IF run.rollbacks # <<>>
               THEN /\ doc' = apply_patch_command(
                                 doc, run.rollbacks[Len(run.rollbacks)]).doc
                    /\ run'.rollbacks
                          = SubSeq(run.rollbacks, 1, Len(run.rollbacks) - 1)
                    /\ pc' = "rollback"
               ELSE /\ doc' = doc
                    /\ pc' = "returned"
                    /\ last'.res = Err(run.err)
      ]_vars

\* C22's case: the third command of a batch failed and the more recent of
\* the two inverses has been applied
C22_Witness ==
    /\ pc = "rollback"
    /\ Len(last.cmds) = 3 /\ Len(run.todo) = 1
    /\ Len(run.rollbacks) = 1

====
